---- MODULE Spec2Model ----
(***************************************************************************)
(* Model of src/desctopo.py: the topology frames (interfaces, endpoints,   *)
(* routers, switches, networks), the registry dictionaries, the            *)
(* connectivity index devConnected, ConnectDevs and Consolidate.           *)
(*                                                                         *)
(* Every function is modelled as Python executes it.  A call that raises   *)
(* keeps the assignments made before the raise and reports the exception   *)
(* type in last.exc; a call that returns reports its return value in       *)
(* last.ret.                                                               *)
(*                                                                         *)
(* Frames.  NetDevice (lines 300-319) declares DevAddIntrfc abstract and   *)
(* only RouterFrameClass defines it, so EndptFrameClass(), SwitchFrame-    *)
(* Class() and NetworkFrameClass() raise TypeError; CreateRouter and       *)
(* CreateIntrfc assign a module counter without a global declaration and   *)
(* raise UnboundLocalError.  No Create* call therefore returns a frame     *)
(* (actions CreateEndpt .. CreateIntrfc below).  The frames the other      *)
(* operations work on are the ones a builder installs by hand, as the      *)
(* carry-repair scenario of the specification does: the device frames of   *)
(* DevFrames and the network frames of NetFrames, with the fields and the  *)
(* registry entries the Create* bodies assign (Init), and interface        *)
(* frames filled in field by field and attached with AddIntrfc (action     *)
(* AttachIntrfc).  A frame is identified with its Name.                    *)
(***************************************************************************)
EXTENDS Integers, Sequences, FiniteSets, TLC

\* ------------------------------------------------------------------ bounds
\* number of interface frames the builder attaches
MaxIntrfcs == 2

\* ---------------------------------------------------------------- universe
None == "None"

EndptFrames == {"h1"}
RouterFrames == {"r1"}
SwitchFrames == {"s1", "s2"}
DevFrames == EndptFrames \cup RouterFrames \cup SwitchFrames
NetFrames == {"netA", "netB"}
\* a name no network is registered under
UnknownNet == "netX"
MediaTypes == {"wired", "wireless"}

\* MediaType of the network frames (NetworkFrameClass.MediaType)
NetMediaType == [n \in NetFrames |-> IF n = "netA" THEN "wired" ELSE "wireless"]

\* DevType() of the device frame classes
DevType(d) ==
    IF d \in EndptFrames THEN "Endpt"
    ELSE IF d \in RouterFrames THEN "Router"
    ELSE "Switch"

\* DevName(), DevID(): both return self.Name
DevName(d) == d
DevID(d) == d

VARIABLES
    intrfcs,        \* the IntrfcFrameClass objects, by creation index
    devIntrfcs,     \* Interfaces list of every device frame
    netRouters,     \* Routers list of every network frame
    netEndpts,      \* Endpts list of every network frame
    netSwitches,    \* Switches list of every network frame
    devConnected,   \* the connectivity index
    objTypeByName, devByName, netByName, rtrByName,   \* registry dictionaries
    TopoCfgFrame,   \* the topology frame made by CreateTopoCfgFrame
    Groups,         \* Groups list of every device and network frame
    last            \* the last call: operation, return value, exception

world == <<intrfcs, devIntrfcs, netRouters, netEndpts, netSwitches, devConnected>>
registry == <<objTypeByName, devByName, netByName, rtrByName>>
vars == <<intrfcs, devIntrfcs, netRouters, netEndpts, netSwitches, devConnected,
          objTypeByName, devByName, netByName, rtrByName, TopoCfgFrame, Groups, last>>

\* the frame graph as one value, so that calls compose
World ==
    [intrfcs |-> intrfcs, devIntrfcs |-> devIntrfcs, netRouters |-> netRouters,
     netEndpts |-> netEndpts, netSwitches |-> netSwitches, devConnected |-> devConnected]

SetWorld(w) ==
    /\ intrfcs' = w.intrfcs
    /\ devIntrfcs' = w.devIntrfcs
    /\ netRouters' = w.netRouters
    /\ netEndpts' = w.netEndpts
    /\ netSwitches' = w.netSwitches
    /\ devConnected' = w.devConnected

\* outcome of a call: the frame graph it leaves, its return value, its exception
Returns(w, ret) == [w |-> w, ret |-> ret, exc |-> None]
Raises(w, exc) == [w |-> w, ret |-> None, exc |-> exc]

Call(op, out) == [op |-> op, ret |-> out.ret, exc |-> out.exc]

\* ----------------------------------------------------------------- helpers
Min(S) == CHOOSE x \in S : \A y \in S : x <= y

endptPresent(endptList, endpt) ==
    \E k \in 1..Len(endptList) : DevName(endptList[k]) = DevName(endpt)

routerPresent(rtrList, rtr) ==
    \E k \in 1..Len(rtrList) : DevName(rtrList[k]) = DevName(rtr)

switchPresent(swtchList, swtch) ==
    \E k \in 1..Len(swtchList) : DevName(swtchList[k]) = DevName(swtch)

\* NetworkFrameClass.FacedBy
FacedBy(w, net, dev) ==
    \E k \in 1..Len(w.devIntrfcs[dev]) : w.intrfcs[w.devIntrfcs[dev][k]].Faces = net

\* IntrfcFrameClass(): the fields of a new interface frame (Cable None is 0,
\* the attribute `cable` does not exist yet, written 0)
IntrfcFrameClass ==
    [Name |-> 0, Device |-> None, DevType |-> None, MediaType |-> None,
     Faces |-> None, Cable |-> 0, Carry |-> <<>>, cable |-> 0, Groups |-> <<>>]

\* the module counters; no function of the module can assign them
numberOfIntrfcs == 0
numberOfRouters == 0
numberOfSwitches == 0
numberOfEndpts == 0

\* the default names, formatted from the module counters
DefaultIntrfcName(device) == "intrfc@" \o device \o "[." \o ToString(numberOfIntrfcs) \o "]"
DefaultEndptName(etype) == etype \o "-endpt.(" \o ToString(numberOfEndpts) \o ")"
DefaultRouterName == "rtr.[" \o ToString(numberOfRouters) \o "]"
DefaultSwitchName(name) == "switch(" \o name \o ")." \o ToString(numberOfSwitches)

\* CreateIntrfc: `numberOfIntrfcs += 1` makes numberOfIntrfcs a local of the
\* function (there is no global declaration), read before it is assigned
CreateIntrfc(w, device, name, devType, mediaType, faces) ==
    Raises(w, "UnboundLocalError")

\* faulty variant: the test on the network's media type is dropped
MediaMismatch_m(mediaType, netMediaType) == FALSE

\* the media test of IncludeDev
MediaMismatch(mediaType, netMediaType) ==
    mediaType = "wireless" /\ ~(netMediaType = "wireless")

\* NetworkFrameClass.IncludeDev
IncludeDev(w, net, dev, mediaType, chkIntrfc) ==
    IF MediaMismatch(mediaType, NetMediaType[net])
    THEN Returns(w, "including a wireless device in a wired network")
    ELSE IF chkIntrfc /\ ~FacedBy(w, net, dev)
    THEN CreateIntrfc(w, DevName(dev), DefaultIntrfcName(DevName(dev)), DevType(dev), mediaType, net)
    ELSE \* intrfc is None here: nothing is appended to dev.Interfaces
         CASE DevType(dev) = "Endpt" ->
                Returns(IF ~endptPresent(w.netEndpts[net], dev)
                        THEN [w EXCEPT !.netEndpts[net] = Append(@, dev)]
                        ELSE w, None)
           [] DevType(dev) = "Router" ->
                Returns(IF ~routerPresent(w.netRouters[net], dev)
                        THEN [w EXCEPT !.netRouters[net] = Append(@, dev)]
                        ELSE w, None)
           [] DevType(dev) = "Switch" ->
                \* switchPresent(swtch): one argument for two parameters
                Raises(w, "TypeError")

\* NetworkFrameClass.AddRouter
AddRouter(w, net, rtrf) ==
    IF routerPresent(w.netRouters[net], rtrf)
    THEN Returns(w, None)
    ELSE IF ~FacedBy(w, net, rtrf)
    THEN Returns(w, "router without prior association of an interface")
    ELSE Returns([w EXCEPT !.netRouters[net] = Append(@, rtrf)], None)

\* NetworkFrameClass.AddSwitch: the loop variable is the parameter swtch, so
\* the test compares an element with itself and any non-empty list is a hit
AddSwitch(w, net, swtch) ==
    IF Len(w.netSwitches[net]) > 0
    THEN Returns(w, None)
    ELSE IF ~FacedBy(w, net, swtch)
    THEN Returns(w, "switch without prior association of an interface")
    ELSE Returns([w EXCEPT !.netSwitches[net] = Append(@, swtch)], None)

\* ------------------------------------------------------- interface linking
\* CableIntrfcFrames assigns the attribute `cable`, not `Cable`
CableIntrfcFrames(I, intrfc1, intrfc2) ==
    [I EXCEPT ![intrfc1].cable = intrfc2, ![intrfc2].cable = intrfc1]

\* is an interface named like intrfc listed in I[holder].Carry
CarryHasName(I, holder, intrfc) ==
    \E k \in 1..Len(I[holder].Carry) : I[I[holder].Carry[k]].Name = I[intrfc].Name

\* CarryIntrfcFrames
\* faulty variant: the second direction is appended without the search
CarryIntrfcFrames_m(I, intrfc1, intrfc2) ==
    LET I1 == IF ~CarryHasName(I, intrfc1, intrfc2)
              THEN [I EXCEPT ![intrfc1].Carry = Append(@, intrfc2)]
              ELSE I
    IN [I1 EXCEPT ![intrfc2].Carry = Append(@, intrfc1)]

CarryIntrfcFrames(I, intrfc1, intrfc2) ==
    LET I1 == IF ~CarryHasName(I, intrfc1, intrfc2)
              THEN [I EXCEPT ![intrfc1].Carry = Append(@, intrfc2)]
              ELSE I
    IN IF ~CarryHasName(I1, intrfc2, intrfc1)
       THEN [I1 EXCEPT ![intrfc2].Carry = Append(@, intrfc1)]
       ELSE I1

\* carryContained: intrfc1 is in the Carry list of intrfc2, by identity or name
carryContained(I, intrfc1, intrfc2) ==
    \E k \in 1..Len(I[intrfc2].Carry) :
        \/ I[intrfc2].Carry[k] = intrfc1
        \/ I[I[intrfc2].Carry[k]].Name = I[intrfc1].Name

\* ------------------------------------------------------ connectivity index
\* faulty variant: returnBool is never set
isConnected_m(dc, id1, id2) == FALSE

isConnected(dc, id1, id2) ==
    \E k \in 1..Len(dc[id1]) : dc[id1][k] = id2

\* faulty variant: the pair is not recorded
markConnected_m(dc, id1, id2) == dc

markConnected(dc, id1, id2) ==
    IF isConnected(dc, id1, id2)
    THEN dc
    ELSE LET dc1 == [dc EXCEPT ![id1] = Append(@, id2)]
         IN [dc1 EXCEPT ![id2] = Append(@, id1)]

\* ------------------------------------------------------------- ConnectDevs
\* faulty variant: the media type is not tested
Pool_m(w, dev, faces) ==
    SelectSeq(w.devIntrfcs[dev], LAMBDA i : w.intrfcs[i].Faces = faces)

\* the interfaces of dev that face the named network and are not wireless
Pool(w, dev, faces) ==
    SelectSeq(w.devIntrfcs[dev],
              LAMBDA i : w.intrfcs[i].Faces = faces /\ ~(w.intrfcs[i].MediaType = "wireless"))

\* the k-th pair of `for intrfc1 in intrfcs1: for intrfc2 in intrfcs2`
PairAt(intrfcs1, intrfcs2, k) ==
    <<intrfcs1[((k - 1) \div Len(intrfcs2)) + 1], intrfcs2[((k - 1) % Len(intrfcs2)) + 1]>>

\* faulty variant: the Cable of intrfc1 is not tested
CableMatch_m(I, intrfc1, intrfc2) ==
    I[intrfc2].Cable = intrfc1 \/ I[intrfc2].Cable = 0

\* the test of the cable loop: neither interface is cabled to a third one
CableMatch(I, intrfc1, intrfc2) ==
    /\ ~(I[intrfc1].Cable # 0 /\ I[intrfc1].Cable # intrfc2)
    /\ (I[intrfc2].Cable = intrfc1 \/ I[intrfc2].Cable = 0)

\* faulty variant: only intrfc1.Cable is assigned
SetCable_m(I, intrfc1, intrfc2) == [I EXCEPT ![intrfc1].Cable = intrfc2]

\* intrfc1.Cable = intrfc2; intrfc2.Cable = intrfc1
SetCable(I, intrfc1, intrfc2) ==
    [I EXCEPT ![intrfc1].Cable = intrfc2, ![intrfc2].Cable = intrfc1]

\* the two tests of the carry loop
CarryMatchA(I, intrfc1, intrfc2) ==
    carryContained(I, intrfc1, intrfc2) /\ ~carryContained(I, intrfc2, intrfc1)

CarryMatchB(I, intrfc1, intrfc2) ==
    carryContained(I, intrfc2, intrfc1) /\ ~carryContained(I, intrfc1, intrfc2)

\* the first pair of the nested loop at which the loop returns, 0 when none
FirstPair(I, intrfcs1, intrfcs2, cable) ==
    LET Hit(x, y) == IF cable THEN CableMatch(I, x, y)
                     ELSE CarryMatchA(I, x, y) \/ CarryMatchB(I, x, y)
        hits == {k \in 1..(Len(intrfcs1) * Len(intrfcs2)) :
                    Hit(PairAt(intrfcs1, intrfcs2, k)[1], PairAt(intrfcs1, intrfcs2, k)[2])}
    IN IF hits = {} THEN 0 ELSE Min(hits)

\* what the carry loop does with the pair it stops at
CarryRepair(I, intrfc1, intrfc2) ==
    IF CarryMatchA(I, intrfc1, intrfc2)
    THEN [I EXCEPT ![intrfc2].Carry = Append(@, intrfc1)]
    ELSE [I EXCEPT ![intrfc1].Carry = Append(@, intrfc2)]

\* free1.Carry.append(free2); free2.Carry.append(free1)
AppendCarry(I, free1, free2) ==
    LET I1 == [I EXCEPT ![free1].Carry = Append(@, free2)]
    IN [I1 EXCEPT ![free2].Carry = Append(@, free1)]

\* faulty variant: the Cable test is inverted
FreeIntrfc_m(I, pool, faces) ==
    LET hits == {k \in 1..Len(pool) : I[pool[k]].Faces = faces /\ I[pool[k]].Cable # 0}
    IN IF hits = {} THEN 0 ELSE pool[Min(hits)]

\* the first interface of the pool that faces the network and has no Cable, 0 when none
FreeIntrfc(I, pool, faces) ==
    LET hits == {k \in 1..Len(pool) : I[pool[k]].Faces = faces /\ I[pool[k]].Cable = 0}
    IN IF hits = {} THEN 0 ELSE pool[Min(hits)]

\* ConnectDevs from `free1 = None` on: no pair of the pools could be completed
ConnectFree(w, dev1, dev2, cable, faces, intrfcs1, intrfcs2) ==
    LET free1 == FreeIntrfc(w.intrfcs, intrfcs1, faces)
        free2 == FreeIntrfc(w.intrfcs, intrfcs2, faces)
    IN IF free1 = 0
       THEN CreateIntrfc(w, DevName(dev1), DefaultIntrfcName(DevName(dev1)), DevType(dev1),
                         "wired", faces)
       ELSE IF free2 = 0
       THEN CreateIntrfc(w, DevName(dev2), DefaultIntrfcName(DevName(dev2)), DevType(dev2),
                         "wired", faces)
       ELSE IF cable
       THEN Returns([w EXCEPT !.intrfcs = SetCable(@, free1, free2)], None)
       ELSE Returns([w EXCEPT !.intrfcs = AppendCarry(@, free1, free2)], None)

\* ConnectDevs once both devices are included in the network
ConnectPools(w, dev1, dev2, cable, faces) ==
    LET intrfcs2 == Pool(w, dev2, faces)
        intrfcs1 == Pool(w, dev1, faces)
        I == w.intrfcs
        k == FirstPair(I, intrfcs1, intrfcs2, cable)
        p == PairAt(intrfcs1, intrfcs2, k)
    IN IF k # 0
       THEN IF cable
            THEN Returns([w EXCEPT !.intrfcs = SetCable(@, p[1], p[2])], None)
            ELSE Returns([w EXCEPT !.intrfcs = CarryRepair(@, p[1], p[2])], None)
       ELSE ConnectFree(w, dev1, dev2, cable, faces, intrfcs1, intrfcs2)

\* faulty variant: the network is looked up with a default and an unknown name
\* ends the call without an exception
ConnectDevs_m(w, nbn, dev1, dev2, cable, faces) ==
    IF isConnected(w.devConnected, DevID(dev1), DevID(dev2))
    THEN Returns(w, None)
    ELSE LET w1 == [w EXCEPT !.devConnected = markConnected(@, DevID(dev1), DevID(dev2))]
         IN IF faces \notin nbn
            THEN Returns(w1, None)
            ELSE LET r1 == IncludeDev(w1, faces, dev1, "wired", TRUE)
                 IN IF r1.exc # None
                    THEN r1
                    ELSE LET r2 == IncludeDev(r1.w, faces, dev2, "wired", TRUE)
                         IN IF r2.exc # None
                            THEN r2
                            ELSE ConnectPools(r2.w, dev1, dev2, cable, faces)

\* ConnectDevs(dev1, dev2, cable, faces); nbn is netByName
ConnectDevs(w, nbn, dev1, dev2, cable, faces) ==
    IF isConnected(w.devConnected, DevID(dev1), DevID(dev2))
    THEN Returns(w, None)
    ELSE LET w1 == [w EXCEPT !.devConnected = markConnected(@, DevID(dev1), DevID(dev2))]
         IN IF faces \notin nbn
            THEN Raises(w1, "KeyError")
            ELSE LET r1 == IncludeDev(w1, faces, dev1, "wired", TRUE)
                 IN IF r1.exc # None
                    THEN r1
                    ELSE LET r2 == IncludeDev(r1.w, faces, dev2, "wired", TRUE)
                         IN IF r2.exc # None
                            THEN r2
                            ELSE ConnectPools(r2.w, dev1, dev2, cable, faces)

\* ------------------------------------------------------------ topology frame
\* CreateTopoCfgFrame(name): the four lists start empty
CreateTopoCfgFrame ==
    [Name |-> "topo", Endpts |-> <<>>, Networks |-> <<>>, Routers |-> <<>>,
     Switches |-> <<>>]

\* storedX == x or storedX.Name == inputName, for some stored frame
Stored(list, frame) ==
    \E k \in 1..Len(list) : list[k] = frame \/ DevName(list[k]) = DevName(frame)

\* faulty variant: the endpoint is appended without the search
addEndpt_m(T, endpt) == [T EXCEPT !.Endpts = Append(@, endpt)]

addEndpt(T, endpt) ==
    IF Stored(T.Endpts, endpt) THEN T ELSE [T EXCEPT !.Endpts = Append(@, endpt)]

addNetwork(T, net) ==
    IF Stored(T.Networks, net) THEN T ELSE [T EXCEPT !.Networks = Append(@, net)]

addRouter(T, rtr) ==
    IF Stored(T.Routers, rtr) THEN T ELSE [T EXCEPT !.Routers = Append(@, rtr)]

addSwitch(T, swtch) ==
    IF Stored(T.Switches, swtch) THEN T ELSE [T EXCEPT !.Switches = Append(@, swtch)]

RECURSIVE AddRouters(_, _)
AddRouters(T, list) ==
    IF list = <<>> THEN T ELSE AddRouters(addRouter(T, Head(list)), Tail(list))

RECURSIVE AddEndpts(_, _)
AddEndpts(T, list) ==
    IF list = <<>> THEN T ELSE AddEndpts(addEndpt(T, Head(list)), Tail(list))

RECURSIVE AddSwitches(_, _)
AddSwitches(T, list) ==
    IF list = <<>> THEN T ELSE AddSwitches(addSwitch(T, Head(list)), Tail(list))

\* the loop of Consolidate over the networks of the topology frame
RECURSIVE Gather(_, _, _)
Gather(T, w, networks) ==
    IF networks = <<>>
    THEN T
    ELSE LET n == Head(networks)
             T1 == AddRouters(T, w.netRouters[n])
             T2 == AddEndpts(T1, w.netEndpts[n])
             T3 == AddSwitches(T2, w.netSwitches[n])
         IN Gather(T3, w, Tail(networks))

\* faulty variant: the lists are emptied before the networks are counted
Consolidate_m(T, w) ==
    LET T0 == [T EXCEPT !.Endpts = <<>>, !.Routers = <<>>, !.Switches = <<>>]
    IN IF Len(T.Networks) = 0
       THEN [T |-> T0, ret |-> "no networks given in TopoCfgFrame in Consolidate call"]
       ELSE [T |-> Gather(T0, w, T.Networks), ret |-> None]

\* TopoCfgFrameClass.Consolidate: the frame it leaves and the message it returns
Consolidate(T, w) ==
    IF Len(T.Networks) = 0
    THEN [T |-> T, ret |-> "no networks given in TopoCfgFrame in Consolidate call"]
    ELSE [T |-> Gather([T EXCEPT !.Endpts = <<>>, !.Routers = <<>>, !.Switches = <<>>],
                       w, T.Networks),
          ret |-> None]

\* ----------------------------------------------------------------- AddGroup
\* AddGroup of IntrfcFrameClass, EndptFrameClass, RouterFrameClass and
\* SwitchFrameClass: the Groups list it leaves
AddGroup(groups, groupName) ==
    IF ~(\E k \in 1..Len(groups) : groups[k] = groupName)
    THEN Append(groups, groupName)
    ELSE groups

\* NetworkFrameClass.AddGroup: the name is appended when it is in the list
NetworkAddGroup(groups, groupName) ==
    IF \E k \in 1..Len(groups) : groups[k] = groupName
    THEN Append(groups, groupName)
    ELSE groups

\* AddGroup of the class of a device or network frame
FrameAddGroup(frame, groups, groupName) ==
    IF frame \in NetFrames THEN NetworkAddGroup(groups, groupName)
    ELSE AddGroup(groups, groupName)

\* ---------------------------------------------------------------- Transform
\* what a descriptor field holds: a name string, a reference to an interface
\* frame, or None
Str(name) == [type |-> "str", Name |-> name]
FrameRef(I, i) == [type |-> "IntrfcFrameClass", Name |-> I[i].Name]
NoValue == [type |-> "NoneType", Name |-> None]

\* IntrfcFrameClass.Transform: Cable becomes self.Cable.Name, the Carry loop
\* appends the elements of self.Carry themselves
IntrfcTransform(I, i) ==
    [Name |-> I[i].Name, Device |-> I[i].Device, DevType |-> I[i].DevType,
     MediaType |-> I[i].MediaType, Faces |-> I[i].Faces,
     Cable |-> IF I[i].Cable # 0 THEN Str(I[I[i].Cable].Name) ELSE NoValue,
     Carry |-> [k \in 1..Len(I[i].Carry) |-> FrameRef(I, I[i].Carry[k])]]

\* NetworkFrameClass.Transform: the three lists hold rtr.Name, endpt.Name, swtch.Name
NetTransform(w, net) ==
    [Name |-> net, MediaType |-> NetMediaType[net],
     Routers |-> [k \in 1..Len(w.netRouters[net]) |-> Str(DevName(w.netRouters[net][k]))],
     Endpts |-> [k \in 1..Len(w.netEndpts[net]) |-> Str(DevName(w.netEndpts[net][k]))],
     Switches |-> [k \in 1..Len(w.netSwitches[net]) |-> Str(DevName(w.netSwitches[net][k]))]]

\* faulty variant: the members are added to the lists as they stand
TopoTransform_m(T, w) ==
    IF Len(T.Networks) = 0
    THEN [T |-> T, td |-> {}, ret |-> None, exc |-> "AttributeError"]
    ELSE [T |-> Gather(T, w, T.Networks), td |-> {"Name"}, ret |-> None, exc |-> None]

\* TopoCfgFrameClass.Transform: the frame it leaves, the keys of the dictionary
\* td.TopoCfg it builds, the type of the object it returns and the exception.
\* os has no attribute exit; the function has no return statement
TopoTransform(T, w) ==
    LET c == Consolidate(T, w)
    IN IF c.ret # None
       THEN [T |-> c.T, td |-> {}, ret |-> None, exc |-> "AttributeError"]
       ELSE [T |-> c.T, td |-> {"Name"}, ret |-> None, exc |-> None]

\* ------------------------------------------------------------- constructors
\* the abstract methods of NetDevice
NetDeviceAbstract == {"DevName", "DevID", "DevType", "DevInterfaces", "DevAddIntrfc"}

\* the methods of NetDevice each frame class defines
ClassDefines(cls) ==
    CASE cls = "EndptFrameClass" -> {"DevName", "DevID", "DevType", "DevInterfaces"}
      [] cls = "RouterFrameClass" -> {"DevName", "DevID", "DevType", "DevInterfaces", "DevAddIntrfc"}
      [] cls = "SwitchFrameClass" -> {"DevName", "DevID", "DevType", "DevInterfaces"}
      [] cls = "NetworkFrameClass" -> {"DevName", "DevID", "DevType", "DevInterfaces"}

\* cls(): a class with an abstract method left cannot be instantiated
Instantiate(cls) ==
    IF NetDeviceAbstract \subseteq ClassDefines(cls) THEN None ELSE "TypeError"

\* the module counters a function declares global: none does
GlobalDecls(fn) == {}

\* `counter = counter + 1` in fn: without a global declaration the name is a
\* local, read before it is assigned
BumpCounter(fn, counter) ==
    IF counter \in GlobalDecls(fn) THEN None ELSE "UnboundLocalError"

\* a dictionary with d[key] = value assigned
Assign(d, key, value) ==
    [k \in DOMAIN d \cup {key} |-> IF k = key THEN value ELSE d[k]]

Registry ==
    [objTypeByName |-> objTypeByName, devByName |-> devByName,
     netByName |-> netByName, rtrByName |-> rtrByName]

\* the module counter of a name, and the default name of a device type
Counter(counter) ==
    CASE counter = "numberOfEndpts" -> numberOfEndpts
      [] counter = "numberOfRouters" -> numberOfRouters
      [] counter = "numberOfSwitches" -> numberOfSwitches

DefaultDevName(type) ==
    CASE type = "Endpt" -> DefaultEndptName("Host")
      [] type = "Router" -> DefaultRouterName
      [] type = "Switch" -> DefaultSwitchName("switch")

\* a device constructor: instantiate the class, bump the counter, take the
\* default name when the name is empty, register the name.  name is the Name of
\* the frame made (None when the call raises), count the module counter after
\* the call
CreateDev(reg, cls, fn, counter, type, name) ==
    IF Instantiate(cls) # None
    THEN [reg |-> reg, exc |-> Instantiate(cls), name |-> None, count |-> Counter(counter)]
    ELSE IF BumpCounter(fn, counter) # None
    THEN [reg |-> reg, exc |-> BumpCounter(fn, counter), name |-> None,
          count |-> Counter(counter)]
    ELSE LET nm == IF name = "" THEN DefaultDevName(type) ELSE name
         IN [reg |-> [reg EXCEPT !.objTypeByName = Assign(@, nm, type),
                                 !.devByName = Assign(@, nm, nm),
                                 !.rtrByName = IF type = "Router" THEN Assign(@, nm, nm) ELSE @],
             exc |-> None, name |-> nm, count |-> Counter(counter) + 1]

CreateEndpt(reg, name) ==
    CreateDev(reg, "EndptFrameClass", "CreateEndpt", "numberOfEndpts", "Endpt", name)

CreateRouter(reg, name) ==
    CreateDev(reg, "RouterFrameClass", "CreateRouter", "numberOfRouters", "Router", name)

CreateSwitch(reg, name) ==
    CreateDev(reg, "SwitchFrameClass", "CreateSwitch", "numberOfSwitches", "Switch", name)

CreateNetwork(reg, name) ==
    IF Instantiate("NetworkFrameClass") # None
    THEN [reg |-> reg, exc |-> Instantiate("NetworkFrameClass")]
    ELSE [reg |-> [reg EXCEPT !.objTypeByName = Assign(@, name, "Network"),
                              !.netByName = Assign(@, name, name)],
          exc |-> None]

\* AddIntrfc of the device frame classes: no interface of the device is this
\* one or is named like it
AddIntrfc(w, dev, iff) ==
    IF \E k \in 1..Len(w.devIntrfcs[dev]) :
           w.devIntrfcs[dev][k] = iff \/ w.intrfcs[w.devIntrfcs[dev][k]].Name = w.intrfcs[iff].Name
    THEN Returns(w, "attempt to re-add interface")
    ELSE Returns([w EXCEPT !.intrfcs[iff].DevType = DevType(dev),
                           !.intrfcs[iff].Device = DevName(dev),
                           !.devIntrfcs[dev] = Append(@, iff)], None)

\* -------------------------------------------------------------------- state
\* names given to the constructors: two registered ones and a new one
CtorNames == {"h1", "netA", "new"}

\* the interfaces the builder attaches: the network faced and the media type
IntrfcKinds == {<<"netA", "wired">>, <<"netB", "wireless">>}

\* the group names given to AddGroup
GroupNames == {"Host", "Hub"}

\* the names the builder gives to interface frames
IntrfcNames == {"eth0", "eth1"}

NoCall == [op |-> "none", ret |-> None, exc |-> None]

Init ==
    /\ intrfcs = <<>>
    /\ devIntrfcs = [d \in DevFrames |-> <<>>]
    /\ netRouters = [n \in NetFrames |-> <<>>]
    /\ netEndpts = [n \in NetFrames |-> <<>>]
    /\ netSwitches = [n \in NetFrames |-> <<>>]
    /\ devConnected = [d \in DevFrames |-> <<>>]
    /\ objTypeByName = [x \in DevFrames \cup NetFrames |->
                            IF x \in NetFrames THEN "Network" ELSE DevType(x)]
    /\ devByName = [d \in DevFrames |-> d]
    /\ netByName = [n \in NetFrames |-> n]
    /\ rtrByName = [r \in RouterFrames |-> r]
    /\ TopoCfgFrame = CreateTopoCfgFrame
    /\ Groups = [f \in DevFrames \cup NetFrames |-> <<>>]
    /\ last = NoCall

\* ------------------------------------------------------------------ actions
\* the builder fills in an interface frame and attaches it: dev.AddIntrfc(iff)
AttachIntrfc(dev, net, mediaType) ==
    /\ Len(intrfcs) < MaxIntrfcs
    /\ LET iff == Len(intrfcs) + 1
           w0 == [World EXCEPT !.intrfcs =
                     Append(@, [IntrfcFrameClass EXCEPT !.Name = iff, !.MediaType = mediaType,
                                                        !.Faces = net])]
           out == AddIntrfc(w0, dev, iff)
       IN /\ SetWorld(out.w)
          /\ last' = Call("AddIntrfc", out)
    /\ UNCHANGED <<registry, TopoCfgFrame, Groups>>

\* the builder gives the interface frame a name of its choice before attaching it
AttachNamed(dev, name, net, mediaType) ==
    /\ Len(intrfcs) < MaxIntrfcs
    /\ LET iff == Len(intrfcs) + 1
           w0 == [World EXCEPT !.intrfcs =
                     Append(@, [IntrfcFrameClass EXCEPT !.Name = name, !.MediaType = mediaType,
                                                        !.Faces = net])]
           out == AddIntrfc(w0, dev, iff)
       IN /\ SetWorld(out.w)
          /\ last' = Call("AddIntrfc", out)
    /\ UNCHANGED <<registry, TopoCfgFrame, Groups>>

CallCreate(op, out) ==
    /\ objTypeByName' = out.reg.objTypeByName
    /\ devByName' = out.reg.devByName
    /\ netByName' = out.reg.netByName
    /\ rtrByName' = out.reg.rtrByName
    /\ last' = [op |-> op, ret |-> None, exc |-> out.exc]
    /\ UNCHANGED <<world, TopoCfgFrame, Groups>>

CallCreateEndpt(name) == CallCreate("CreateEndpt", CreateEndpt(Registry, name))

CallCreateRouter(name) == CallCreate("CreateRouter", CreateRouter(Registry, name))

CallCreateSwitch(name) == CallCreate("CreateSwitch", CreateSwitch(Registry, name))

CallCreateNetwork(name) == CallCreate("CreateNetwork", CreateNetwork(Registry, name))

CallWorld(op, out) ==
    /\ SetWorld(out.w)
    /\ last' = Call(op, out)
    /\ UNCHANGED <<registry, TopoCfgFrame, Groups>>

CallCreateIntrfc(dev, mediaType, faces) ==
    CallWorld("CreateIntrfc", CreateIntrfc(World, DevName(dev), "", DevType(dev), mediaType, faces))

CallIncludeDev(net, dev, mediaType, chkIntrfc) ==
    CallWorld("IncludeDev", IncludeDev(World, net, dev, mediaType, chkIntrfc))

CallAddRouter(net, rtrf) == CallWorld("AddRouter", AddRouter(World, net, rtrf))

CallAddSwitch(net, swtch) == CallWorld("AddSwitch", AddSwitch(World, net, swtch))

CallCableIntrfcFrames(intrfc1, intrfc2) ==
    CallWorld("CableIntrfcFrames",
              Returns([World EXCEPT !.intrfcs = CableIntrfcFrames(@, intrfc1, intrfc2)], None))

CallCarryIntrfcFrames(intrfc1, intrfc2) ==
    CallWorld("CarryIntrfcFrames",
              Returns([World EXCEPT !.intrfcs = CarryIntrfcFrames(@, intrfc1, intrfc2)], None))

CallConnectDevs(dev1, dev2, cable, faces) ==
    CallWorld("ConnectDevs", ConnectDevs(World, DOMAIN netByName, dev1, dev2, cable, faces))

\* the builder appends intrfc2 to intrfc1.Carry and leaves intrfc2.Carry alone:
\* the one-directional relation the carry loop of ConnectDevs looks for
HarnessCarry(intrfc1, intrfc2) ==
    /\ ~carryContained(intrfcs, intrfc2, intrfc1)
    /\ CallWorld("Carry.append",
                 Returns([World EXCEPT !.intrfcs[intrfc1].Carry = Append(@, intrfc2)], None))

CallTopo(op, T) ==
    /\ TopoCfgFrame' = T
    /\ last' = [op |-> op, ret |-> None, exc |-> None]
    /\ UNCHANGED <<world, registry, Groups>>

CallAddEndpt(endpt) == CallTopo("addEndpt", addEndpt(TopoCfgFrame, endpt))

CallAddNetwork(net) == CallTopo("addNetwork", addNetwork(TopoCfgFrame, net))

CallTopoAddRouter(rtr) == CallTopo("addRouter", addRouter(TopoCfgFrame, rtr))

CallTopoAddSwitch(swtch) == CallTopo("addSwitch", addSwitch(TopoCfgFrame, swtch))

CallConsolidate ==
    LET out == Consolidate(TopoCfgFrame, World)
    IN /\ TopoCfgFrame' = out.T
       /\ last' = [op |-> "Consolidate", ret |-> out.ret, exc |-> None]
       /\ UNCHANGED <<world, registry, Groups>>

CallAddGroup(frame, groupName) ==
    /\ Groups' = [Groups EXCEPT ![frame] = FrameAddGroup(frame, @, groupName)]
    /\ last' = [op |-> "AddGroup", ret |-> None, exc |-> None]
    /\ UNCHANGED <<world, registry, TopoCfgFrame>>

CallIntrfcAddGroup(intrfc, groupName) ==
    CallWorld("AddGroup",
              Returns([World EXCEPT !.intrfcs[intrfc].Groups = AddGroup(@, groupName)], None))

CallTransform ==
    LET out == TopoTransform(TopoCfgFrame, World)
    IN /\ TopoCfgFrame' = out.T
       /\ last' = [op |-> "Transform", ret |-> out.ret, exc |-> out.exc]
       /\ UNCHANGED <<world, registry, Groups>>

\* ----------------------------------------------------------- specifications
\* the devices that are given interfaces and connected
LinkDevs == {"h1", "r1"}
\* the devices of the membership and topology specifications
BaseDevs == {"h1", "r1", "s1"}
BaseSwitches == {"s1"}

\* linking: interfaces are attached, devices included and connected, interfaces cabled
Next ==
    \/ \E d \in LinkDevs, k \in IntrfcKinds : AttachIntrfc(d, k[1], k[2])
    \/ \E d1, d2 \in LinkDevs, c \in BOOLEAN, n \in NetFrames \cup {UnknownNet} :
          CallConnectDevs(d1, d2, c, n)
    \/ \E a, b \in 1..Len(intrfcs) :
          a < b /\ intrfcs[a].Device # intrfcs[b].Device /\ CallCableIntrfcFrames(a, b)
    \/ \E n \in NetFrames, d \in LinkDevs : CallIncludeDev(n, d, "wired", TRUE)

Spec == Init /\ [][Next]_vars

\* carrying: interfaces are attached and carried, by CarryIntrfcFrames or in one
\* direction by hand, and devices connected
NextManual ==
    \/ \E d \in LinkDevs, k \in IntrfcKinds : AttachIntrfc(d, k[1], k[2])
    \/ \E d1, d2 \in LinkDevs, c \in BOOLEAN, n \in NetFrames \cup {UnknownNet} :
          CallConnectDevs(d1, d2, c, n)
    \/ \E a, b \in 1..Len(intrfcs) : a < b /\ CallCarryIntrfcFrames(a, b)
    \/ \E a, b \in 1..Len(intrfcs) : a < b /\ HarnessCarry(a, b)

SpecManual == Init /\ [][NextManual]_vars

\* network membership and the constructors
NextNet ==
    \/ \E d \in BaseDevs, k \in IntrfcKinds : AttachIntrfc(d, k[1], k[2])
    \/ \E x \in CtorNames : CallCreateEndpt(x)
    \/ \E x \in CtorNames : CallCreateRouter(x)
    \/ \E x \in CtorNames : CallCreateSwitch(x)
    \/ \E x \in CtorNames : CallCreateNetwork(x)
    \/ \E d \in BaseDevs, m \in MediaTypes, n \in NetFrames \cup {UnknownNet} :
          CallCreateIntrfc(d, m, n)
    \/ \E n \in NetFrames, d \in BaseDevs, m \in MediaTypes, c \in BOOLEAN :
          CallIncludeDev(n, d, m, c)
    \/ \E n \in NetFrames, r \in RouterFrames : CallAddRouter(n, r)
    \/ \E n \in NetFrames, s \in BaseSwitches : CallAddSwitch(n, s)

SpecNet == Init /\ [][NextNet]_vars

\* the topology frame: membership, the add methods and Consolidate
NextTopo ==
    \/ \E s \in BaseSwitches, n \in NetFrames : AttachIntrfc(s, n, "wired")
    \/ \E n \in NetFrames, d \in BaseDevs : CallIncludeDev(n, d, "wired", FALSE)
    \/ \E n \in NetFrames, s \in BaseSwitches : CallAddSwitch(n, s)
    \/ \E e \in EndptFrames : CallAddEndpt(e)
    \/ \E n \in NetFrames : CallAddNetwork(n)
    \/ \E r \in RouterFrames : CallTopoAddRouter(r)
    \/ \E s \in BaseSwitches : CallTopoAddSwitch(s)
    \/ CallConsolidate
    \/ CallTransform

SpecTopo == Init /\ [][NextTopo]_vars

\* direct addition: routers and switches are given interfaces and added
NextAdd ==
    \/ \E d \in RouterFrames \cup SwitchFrames, k \in IntrfcKinds : AttachIntrfc(d, k[1], k[2])
    \/ \E n \in NetFrames, r \in RouterFrames : CallAddRouter(n, r)
    \/ \E n \in NetFrames, sw \in SwitchFrames : CallAddSwitch(n, sw)

SpecAdd == Init /\ [][NextAdd]_vars

\* connecting: interfaces are attached and devices connected
NextLink ==
    \/ \E d \in LinkDevs, k \in IntrfcKinds : AttachIntrfc(d, k[1], k[2])
    \/ \E d1, d2 \in LinkDevs, c \in BOOLEAN, n \in NetFrames \cup {UnknownNet} :
          CallConnectDevs(d1, d2, c, n)

SpecLink == Init /\ [][NextLink]_vars

\* carrying: named interfaces are made to carry each other, by
\* CarryIntrfcFrames or one direction at a time by hand
NextCarry ==
    \/ \E d \in LinkDevs, n \in IntrfcNames, k \in IntrfcKinds :
          AttachNamed(d, n, k[1], k[2])
    \/ \E a, b \in 1..Len(intrfcs) : CallCarryIntrfcFrames(a, b)
    \/ \E a, b \in 1..Len(intrfcs) : a # b /\ HarnessCarry(a, b)

SpecCarry == Init /\ [][NextCarry]_vars

\* grouping: frames are given group names
NextGroups ==
    \/ \E k \in IntrfcKinds : AttachIntrfc("h1", k[1], k[2])
    \/ \E f \in BaseDevs \cup NetFrames, g \in GroupNames : CallAddGroup(f, g)
    \/ \E i \in 1..Len(intrfcs), g \in GroupNames : CallIntrfcAddGroup(i, g)

SpecGroups == Init /\ [][NextGroups]_vars

\* naming: interfaces are attached under names the builder chooses and carried
NextNames ==
    \/ \E d \in LinkDevs, x \in IntrfcNames, k \in IntrfcKinds : AttachNamed(d, x, k[1], k[2])
    \/ \E a, b \in 1..Len(intrfcs) : a < b /\ CallCarryIntrfcFrames(a, b)

SpecNames == Init /\ [][NextNames]_vars

\* ------------------------------------------------------------------- claims
Range(s) == {s[k] : k \in 1..Len(s)}
NoDup(s) == \A j, k \in 1..Len(s) : j # k => s[j] # s[k]
Intrfcs == 1..Len(intrfcs)
AnyNet == NetFrames \cup {UnknownNet}
Count(s, x) == Cardinality({k \in 1..Len(s) : s[k] = x})

\* C1: in every reachable state and for all devices dev1, dev2, either cable
\* flag and any network name, a second ConnectDevs call with the same arguments
\* leaves the interface lists, Cable, Carry, membership lists and connectivity
\* index exactly as the first call left them
C1_ConnectTwiceAsOnce ==
    \A d1, d2 \in LinkDevs, c \in BOOLEAN, n \in AnyNet :
        LET once == ConnectDevs(World, DOMAIN netByName, d1, d2, c, n).w
        IN ConnectDevs(once, DOMAIN netByName, d1, d2, c, n).w = once

\* a ConnectDevs call has returned, two interfaces of different devices carry
\* each other and one device is a member of a network
C1_Witness ==
    /\ last.op = "ConnectDevs" /\ last.exc = None
    /\ \E a, b \in Intrfcs :
          /\ intrfcs[a].Device # intrfcs[b].Device
          /\ b \in Range(intrfcs[a].Carry) /\ a \in Range(intrfcs[b].Carry)
    /\ \E n \in NetFrames : netEndpts[n] # <<>>

WirelessInWired == "including a wireless device in a wired network"

\* the interfaces whose Carry list a call changed
Linked(I, J) == {x \in 1..Len(I) : J[x].Carry # I[x].Carry}

\* C3: for all interfaces A and B, after CarryIntrfcFrames(A, B) each names the
\* other in its Carry list, and after a ConnectDevs call with cable false that
\* returns, every interface X whose Carry list the call extended and the
\* interface Y it appended name each other
C3_CarrySymmetric ==
    /\ \A a, b \in Intrfcs :
          LET J == CarryIntrfcFrames(intrfcs, a, b)
          IN CarryHasName(J, a, b) /\ CarryHasName(J, b, a)
    /\ \A d1, d2 \in LinkDevs, n \in NetFrames :
          LET r == ConnectDevs(World, DOMAIN netByName, d1, d2, FALSE, n)
              J == r.w.intrfcs
          IN r.exc = None =>
                \A x \in Linked(intrfcs, J) :
                    LET y == J[x].Carry[Len(J[x].Carry)]
                    IN y \in Range(J[x].Carry) <=> x \in Range(J[y].Carry)

\* C4: in every reachable state, a device named in a network's Routers, Endpts
\* or Switches list owns an interface whose Faces is that network
C4_MembershipFollowsIntrfcs ==
    \A n \in NetFrames, d \in DevFrames :
        d \in Range(netRouters[n]) \cup Range(netEndpts[n]) \cup Range(netSwitches[n])
            => FacedBy(World, n, d)

\* C5: for all interfaces i1 and i2 facing a non-wireless network N, with i2 in
\* i1.Carry, i1 not in i2.Carry and their devices not connected, ConnectDevs of
\* the two devices with cable false leaves i1 in i2.Carry and both Carry lists
\* free of duplicates
C5_CarryRepair ==
    \A i1, i2 \in Intrfcs, n \in NetFrames :
        LET dev1 == intrfcs[i1].Device
            dev2 == intrfcs[i2].Device
            r == ConnectDevs(World, DOMAIN netByName, dev1, dev2, FALSE, n)
            J == r.w.intrfcs
        IN  /\ i1 # i2 /\ dev1 # dev2
            /\ intrfcs[i1].Faces = n /\ intrfcs[i2].Faces = n
            /\ NetMediaType[n] # "wireless"
            /\ i2 \in Range(intrfcs[i1].Carry) /\ i1 \notin Range(intrfcs[i2].Carry)
            /\ NoDup(intrfcs[i1].Carry) /\ NoDup(intrfcs[i2].Carry)
            /\ ~isConnected(devConnected, DevID(dev1), DevID(dev2))
            => /\ r.exc = None
               /\ i1 \in Range(J[i2].Carry) /\ Count(J[i1].Carry, i2) = 1
               /\ NoDup(J[i1].Carry) /\ NoDup(J[i2].Carry)

\* C6: for all distinct devices h1 and h2 that own no interface facing a wired
\* network N and are not connected, ConnectDevs(h1, h2, true, N) returns having
\* created exactly one interface on each, the two cabled to each other, and a
\* second call creates none
C6_CableReuse ==
    \A d1, d2 \in DevFrames, n \in NetFrames :
        LET r == ConnectDevs(World, DOMAIN netByName, d1, d2, TRUE, n)
            r2 == ConnectDevs(r.w, DOMAIN netByName, d1, d2, TRUE, n)
            J == r.w.intrfcs
        IN  /\ d1 # d2
            /\ NetMediaType[n] = "wired"
            /\ ~FacedBy(World, n, d1) /\ ~FacedBy(World, n, d2)
            /\ ~isConnected(devConnected, DevID(d1), DevID(d2))
            => /\ r.exc = None
               /\ Len(r.w.devIntrfcs[d1]) = Len(devIntrfcs[d1]) + 1
               /\ Len(r.w.devIntrfcs[d2]) = Len(devIntrfcs[d2]) + 1
               /\ \E a, b \in 1..Len(J) :
                     /\ J[a].Device = d1 /\ J[b].Device = d2
                     /\ J[a].Cable = b /\ J[b].Cable = a
               /\ r2.w.intrfcs = J

\* C7: for every name already in the registry, each of CreateEndpt,
\* CreateRouter, CreateSwitch and CreateNetwork fails with DuplicateNameError
\* and leaves the registry as it was
C7_DuplicateNameError ==
    \A name \in DOMAIN objTypeByName :
        \A r \in {CreateEndpt(Registry, name), CreateRouter(Registry, name),
                  CreateSwitch(Registry, name), CreateNetwork(Registry, name)} :
            r.exc = "DuplicateNameError" /\ r.reg = Registry

\* C8: in every reachable state, for every device and every network whose
\* MediaType is not wireless, IncludeDev(device, "wireless", true) returns the
\* error message and leaves the membership lists and every interface list as
\* they were
C8_WirelessRejected ==
    \A n \in NetFrames, d \in DevFrames :
        NetMediaType[n] # "wireless" =>
            LET r == IncludeDev(World, n, d, "wireless", TRUE)
            IN r.exc = None /\ r.ret = WirelessInWired /\ r.w = World

\* IncludeDev has returned the message in a state where the wired network has
\* a member and that member an interface
C8_Witness ==
    /\ last.op = "IncludeDev" /\ last.ret = WirelessInWired
    /\ \E n \in NetFrames, d \in DevFrames :
          /\ NetMediaType[n] # "wireless"
          /\ d \in Range(netEndpts[n]) \cup Range(netRouters[n])
          /\ devIntrfcs[d] # <<>>

\* the names in the membership lists of the topology's networks
Members(T, list) == UNION {Range(list[n]) : n \in Range(T.Networks)}

\* C9: in every reachable state where the topology holds a network,
\* Consolidate returns no error and leaves Endpts, Routers and Switches free of
\* duplicates and holding exactly the names in the Endpts, Routers and Switches
\* lists of the topology's networks
C9_ConsolidateUnion ==
    Len(TopoCfgFrame.Networks) > 0 =>
        LET r == Consolidate(TopoCfgFrame, World)
        IN  /\ r.ret = None
            /\ NoDup(r.T.Endpts) /\ NoDup(r.T.Routers) /\ NoDup(r.T.Switches)
            /\ Range(r.T.Endpts) = Members(TopoCfgFrame, netEndpts)
            /\ Range(r.T.Routers) = Members(TopoCfgFrame, netRouters)
            /\ Range(r.T.Switches) = Members(TopoCfgFrame, netSwitches)
            /\ r.T.Networks = TopoCfgFrame.Networks

\* the topology holds both networks, both list the endpoint, the topology lists
\* a router and a switch that neither network lists, and Consolidate would
\* drop them
C9_Witness ==
    /\ Len(TopoCfgFrame.Networks) = 2
    /\ \A n \in NetFrames : "h1" \in Range(netEndpts[n])
    /\ "r1" \in Range(TopoCfgFrame.Routers) /\ "r1" \notin Members(TopoCfgFrame, netRouters)
    /\ Consolidate(TopoCfgFrame, World).T.Routers = <<>>
    /\ Consolidate(TopoCfgFrame, World).T.Endpts = <<"h1">>

\* C10: in every reachable state where the topology holds no network,
\* Consolidate returns an error message and leaves Endpts, Routers, Switches
\* and Networks as they were
C10_ConsolidateNoNetworks ==
    Len(TopoCfgFrame.Networks) = 0 =>
        LET r == Consolidate(TopoCfgFrame, World)
        IN r.ret # None /\ r.T = TopoCfgFrame

\* Consolidate has returned its message on a topology without networks whose
\* device lists are not empty
C10_Witness ==
    /\ last.op = "Consolidate" /\ last.ret # None
    /\ Len(TopoCfgFrame.Networks) = 0
    /\ TopoCfgFrame.Endpts # <<>> /\ TopoCfgFrame.Routers # <<>>

\* C11: in every reachable state the descriptor of every interface holds the
\* name of the cabled peer in Cable, or nothing when uncabled, and in Carry the
\* names of the frame's Carry entries in the same order; the descriptor of
\* every network lists its member devices by name
C11_DescriptorNames ==
    /\ \A i \in Intrfcs :
          LET d == IntrfcTransform(intrfcs, i)
          IN /\ d.Cable = IF intrfcs[i].Cable = 0 THEN NoValue
                          ELSE Str(intrfcs[intrfcs[i].Cable].Name)
             /\ Len(d.Carry) = Len(intrfcs[i].Carry)
             /\ \A k \in 1..Len(d.Carry) :
                   d.Carry[k] = Str(intrfcs[intrfcs[i].Carry[k]].Name)
    /\ \A n \in NetFrames :
          LET nd == NetTransform(World, n)
          IN \A k \in 1..Len(nd.Routers) : nd.Routers[k].type = "str"

\* the keys of a topology descriptor
TopoKeys == {"Name", "Endpts", "Networks", "Routers", "Switches"}

\* C12: in every reachable state Transform on a topology with a network returns
\* a TopoCfgClass object whose dictionary has the keys Name, Endpts, Networks,
\* Routers and Switches, and on a topology without networks returns nothing
C12_TransformDescriptor ==
    LET r == TopoTransform(TopoCfgFrame, World)
    IN IF Len(TopoCfgFrame.Networks) > 0
       THEN r.exc = None /\ r.ret = "TopoCfgClass" /\ r.td = TopoKeys
       ELSE r.ret = None

\* C13: in every reachable state where the topology holds a network, two
\* Transform calls in a row each return a descriptor tree and the two are equal
C13_TransformTwice ==
    Len(TopoCfgFrame.Networks) > 0 =>
        LET r1 == TopoTransform(TopoCfgFrame, World)
            r2 == TopoTransform(r1.T, World)
        IN /\ r1.ret = "TopoCfgClass" /\ r2.ret = "TopoCfgClass"
           /\ r1.td = r2.td /\ r1.exc = r2.exc

\* C14 as stated: in every reachable state a Transform call leaves the
\* topology frame, its Endpts, Routers and Switches lists included, as it was
C14_TransformPure ==
    TopoTransform(TopoCfgFrame, World).T = TopoCfgFrame

\* C14 as amended: a Transform call leaves the topology's Name and Networks as
\* they were; without networks it leaves Endpts, Routers and Switches as they
\* were; with a network it leaves in them exactly the names of the networks'
\* membership lists, and a second call then changes nothing
C14_TransformFrame ==
    LET r == TopoTransform(TopoCfgFrame, World)
    IN /\ r.T.Name = TopoCfgFrame.Name /\ r.T.Networks = TopoCfgFrame.Networks
       /\ Len(TopoCfgFrame.Networks) = 0 => r.T = TopoCfgFrame
       /\ Len(TopoCfgFrame.Networks) > 0 =>
             /\ Range(r.T.Endpts) = Members(TopoCfgFrame, netEndpts)
             /\ Range(r.T.Routers) = Members(TopoCfgFrame, netRouters)
             /\ Range(r.T.Switches) = Members(TopoCfgFrame, netSwitches)
             /\ TopoTransform(r.T, World).T = r.T

\* Transform has returned on a topology with a network and a listed endpoint,
\* and a switch owns an interface
C14_Witness ==
    /\ last.op = "Transform" /\ last.exc = None
    /\ Len(TopoCfgFrame.Networks) > 0
    /\ TopoCfgFrame.Endpts # <<>>
    /\ intrfcs # <<>>

\* the connectivity index lists b under a
Marked(a, b) == b \in Range(devConnected[a])

\* C15: in every reachable state where the index lists dev2 under dev1,
\* ConnectDevs(dev1, dev2, cable, N) returns and changes nothing, for either
\* cable flag and every network name, registered or not
C15_MarkedPairNoOp ==
    \A d1, d2 \in LinkDevs, c \in BOOLEAN, n \in AnyNet :
        Marked(d1, d2) =>
            LET r == ConnectDevs(World, DOMAIN netByName, d1, d2, c, n)
            IN r.exc = None /\ r.ret = None /\ r.w = World

\* ConnectDevs has returned, the endpoint and the router are in the index and
\* an interface of the one is cabled to an interface of the other
C15_Witness ==
    /\ last.op = "ConnectDevs" /\ last.exc = None
    /\ Marked("h1", "r1") /\ Marked("r1", "h1")
    /\ \E a, b \in Intrfcs :
          intrfcs[a].Device = "h1" /\ intrfcs[b].Device = "r1" /\ intrfcs[a].Cable = b

\* C16: in every reachable state, if the index lists B under A then an
\* interface of A and an interface of B are linked by Cable or by Carry
C16_IndexSound ==
    \A a, b \in DevFrames :
        Marked(a, b) =>
            \E i, j \in Intrfcs :
                /\ intrfcs[i].Device = a /\ intrfcs[j].Device = b
                /\ \/ intrfcs[i].Cable = j
                   \/ j \in Range(intrfcs[i].Carry)
                   \/ i \in Range(intrfcs[j].Carry)

\* C17: in every reachable state, for every network and every router or switch
\* not in its list, AddRouter and AddSwitch return an error and change nothing
\* when the device owns no interface facing the network, and append the device
\* to the list when it does
C17_AddRejectsOrAppends ==
    \A n \in NetFrames :
        /\ \A r \in RouterFrames :
              LET out == AddRouter(World, n, r)
              IN r \notin Range(netRouters[n]) =>
                    IF FacedBy(World, n, r)
                    THEN out.w = [World EXCEPT !.netRouters[n] = Append(@, r)]
                    ELSE out.ret # None /\ out.w = World
        /\ \A sw \in SwitchFrames :
              LET out == AddSwitch(World, n, sw)
              IN sw \notin Range(netSwitches[n]) =>
                    IF FacedBy(World, n, sw)
                    THEN out.w = [World EXCEPT !.netSwitches[n] = Append(@, sw)]
                    ELSE out.ret # None /\ out.w = World

\* C18 as stated: in every reachable state ConnectDevs with a network name
\* that is not registered raises the lookup error, for all devices and either
\* cable flag
C18_UnknownNetworkFails ==
    \A d1, d2 \in LinkDevs, c \in BOOLEAN :
        ConnectDevs(World, DOMAIN netByName, d1, d2, c, UnknownNet).exc = "KeyError"

\* C18 as amended: in every reachable state ConnectDevs with a network name
\* that is not registered raises the lookup error when the index does not list
\* dev2 under dev1, and returns without an error when it does
C18_UnknownNetworkUnmarked ==
    \A d1, d2 \in LinkDevs, c \in BOOLEAN :
        LET r == ConnectDevs(World, DOMAIN netByName, d1, d2, c, UnknownNet)
        IN IF Marked(d1, d2) THEN r.exc = None ELSE r.exc = "KeyError"

\* ConnectDevs has raised the lookup error and left the pair in the index
C18_Witness ==
    /\ last.op = "ConnectDevs" /\ last.exc = "KeyError"
    /\ \E d1, d2 \in LinkDevs : Marked(d1, d2)
    /\ \E d1, d2 \in LinkDevs : ~Marked(d1, d2)

\* C19: in every reachable state CreateIntrfc with a network name that is not
\* registered raises the lookup error, for devices of every type and every
\* media type
C19_CreateIntrfcUnknownNetwork ==
    \A d \in DevFrames, m \in MediaTypes :
        CreateIntrfc(World, DevName(d), "x", DevType(d), m, UnknownNet).exc = "KeyError"

\* C20: in every reachable state CreateIntrfc for a registered network returns;
\* for a router it leaves the router once in the network's Routers list and the
\* other lists as they were, for an endpoint or a switch it leaves the
\* membership lists as they were
C20_CreateIntrfcRouter ==
    \A d \in DevFrames, m \in MediaTypes, n \in NetFrames :
        LET r == CreateIntrfc(World, DevName(d), "x", DevType(d), m, n)
        IN /\ r.exc = None
           /\ r.w.netEndpts = netEndpts /\ r.w.netSwitches = netSwitches
           /\ IF DevType(d) = "Router"
              THEN /\ Count(r.w.netRouters[n], d) = 1
                   /\ \A n2 \in NetFrames \ {n} : r.w.netRouters[n2] = netRouters[n2]
              ELSE r.w.netRouters = netRouters

\* C21: in every reachable state, for every network, device and media type
\* that pass the media test, IncludeDev(dev, mediaType, true) returns with the
\* device facing the network; it attaches exactly one new interface facing the
\* network when the device had none, and none when it had one
C21_IncludeDevEnsuresIntrfc ==
    \A n \in NetFrames, d \in DevFrames, m \in MediaTypes :
        ~MediaMismatch(m, NetMediaType[n]) =>
            LET r == IncludeDev(World, n, d, m, TRUE)
            IN /\ r.exc = None /\ r.ret = None
               /\ FacedBy(r.w, n, d)
               /\ Len(r.w.devIntrfcs[d]) =
                     IF FacedBy(World, n, d) THEN Len(devIntrfcs[d]) ELSE Len(devIntrfcs[d]) + 1

\* the names in a membership list
Names(list) == [k \in 1..Len(list) |-> DevName(list[k])]

\* C22: in every reachable state no membership list holds a name twice, and
\* IncludeDev of a device whose name is already in the list of its kind, with
\* arguments that pass the media test, returns without an error and leaves the
\* membership lists as they were
C22_MembershipNoDuplicates ==
    \A n \in NetFrames :
        /\ NoDup(Names(netEndpts[n])) /\ NoDup(Names(netRouters[n]))
        /\ NoDup(Names(netSwitches[n]))
        /\ \A d \in Range(netEndpts[n]) \cup Range(netRouters[n]) \cup Range(netSwitches[n]),
              m \in MediaTypes, c \in BOOLEAN :
              (~MediaMismatch(m, NetMediaType[n]) /\ (c => FacedBy(World, n, d))) =>
                  LET r == IncludeDev(World, n, d, m, c)
                  IN /\ r.exc = None /\ r.ret = None
                     /\ r.w.netEndpts = netEndpts /\ r.w.netRouters = netRouters
                     /\ r.w.netSwitches = netSwitches

\* C23: in every reachable state CreateEndpt, CreateRouter and CreateSwitch
\* called with an empty name return a frame whose generated name is no key of
\* the registry and no interface's Name, with the counter of the kind greater
\* than before; CreateIntrfc called with an empty name returns as well
C23_DefaultNamesFresh ==
    /\ \A r \in {CreateEndpt(Registry, ""), CreateRouter(Registry, ""),
                 CreateSwitch(Registry, "")} :
          /\ r.exc = None
          /\ r.name \notin DOMAIN objTypeByName
          /\ \A i \in Intrfcs : ToString(intrfcs[i].Name) # r.name
    /\ CreateEndpt(Registry, "").count > numberOfEndpts
    /\ CreateRouter(Registry, "").count > numberOfRouters
    /\ CreateSwitch(Registry, "").count > numberOfSwitches
    /\ \A d \in DevFrames, n \in NetFrames :
          CreateIntrfc(World, DevName(d), "", DevType(d), "wired", n).exc = None

\* the interfaces in the Interfaces list of some device
Attached == UNION {Range(devIntrfcs[d]) : d \in DevFrames}

\* C24: in every reachable state no two distinct interfaces attached to
\* devices, the same device or different ones, have the same Name
C24_IntrfcNamesUnique ==
    \A i, j \in Attached : i # j => intrfcs[i].Name # intrfcs[j].Name

\* the interfaces in the Interfaces list of a device
Own(d) == Range(devIntrfcs[d])

\* C25: in every reachable state every interface is the Cable of at most one
\* interface, and no ConnectDevs call changes the Cable of an interface that
\* has one
C25_CableExclusive ==
    /\ \A i \in Intrfcs : Cardinality({j \in Intrfcs : intrfcs[j].Cable = i}) <= 1
    /\ \A d1, d2 \in LinkDevs, c \in BOOLEAN, n \in AnyNet :
          LET J == ConnectDevs(World, DOMAIN netByName, d1, d2, c, n).w.intrfcs
          IN \A i \in Intrfcs : intrfcs[i].Cable # 0 => J[i].Cable = intrfcs[i].Cable

\* the endpoint's interface is cabled to the router's, and a later ConnectDevs
\* call of the endpoint with itself has ended in the attempt to create an
\* interface
C25_Witness ==
    /\ last.op = "ConnectDevs" /\ last.exc = "UnboundLocalError"
    /\ Marked("h1", "r1") /\ Marked("h1", "h1")
    /\ \E a \in Own("h1"), b \in Own("r1") : intrfcs[a].Cable = b /\ intrfcs[b].Cable = a

\* dev owns a wired interface that faces net and has no Cable
HasFree(d, n) ==
    \E i \in Own(d) :
        intrfcs[i].Faces = n /\ intrfcs[i].MediaType = "wired" /\ intrfcs[i].Cable = 0

C27_LinkWithinPools ==
    \A d1, d2 \in LinkDevs, c \in BOOLEAN, n \in AnyNet :
        LET J == ConnectDevs(World, DOMAIN netByName, d1, d2, c, n).w.intrfcs
            Joins(x, y) == \/ x \in Own(d1) /\ y \in Own(d2)
                           \/ x \in Own(d2) /\ y \in Own(d1)
            InPool(x) == intrfcs[x].Faces = n /\ intrfcs[x].MediaType # "wireless"
        IN /\ Len(J) = Len(intrfcs)
           /\ \A i \in Intrfcs :
                 J[i] # intrfcs[i] =>
                     /\ InPool(i)
                     /\ J[i].Cable # intrfcs[i].Cable =>
                           InPool(J[i].Cable) /\ Joins(i, J[i].Cable)
                     /\ J[i].Carry # intrfcs[i].Carry =>
                           LET before == intrfcs[i].Carry
                               after == J[i].Carry
                           IN /\ Len(after) > Len(before)
                              /\ SubSeq(after, 1, Len(before)) = before
                              /\ \A k \in (Len(before) + 1)..Len(after) :
                                    InPool(after[k]) /\ Joins(i, after[k])

\* ConnectDevs has returned having cabled a wired interface of the endpoint
\* and a wired interface of the router that face the same network
C27_Witness ==
    /\ last.op = "ConnectDevs" /\ last.exc = None
    /\ \E a \in Own("h1"), b \in Own("r1") :
          /\ intrfcs[a].Cable = b
          /\ intrfcs[a].Faces = intrfcs[b].Faces
          /\ intrfcs[a].MediaType = "wired" /\ intrfcs[b].MediaType = "wired"

\* g is in the list exactly once; the list is old with g appended when g was
\* absent, and old itself when g was present
GroupAdded(old, new, g) ==
    /\ Count(new, g) = 1
    /\ new = IF g \in Range(old) THEN old ELSE Append(old, g)

\* C29: in every reachable state, for every interface, endpoint, router, switch
\* and network frame and every group name, AddGroup leaves the name in the
\* frame's Groups exactly once: appended when absent, nothing changed when
\* present
C29_AddGroupOnce ==
    \A g \in GroupNames :
        /\ \A f \in DevFrames \cup NetFrames :
              GroupAdded(Groups[f], FrameAddGroup(f, Groups[f], g), g)
        /\ \A i \in Intrfcs :
              GroupAdded(intrfcs[i].Groups, AddGroup(intrfcs[i].Groups, g), g)

\* the number of entries of holder's Carry list that have x's name
NameCount(I, holder, x) ==
    Cardinality({k \in 1..Len(I[holder].Carry) :
                    I[I[holder].Carry[k]].Name = I[x].Name})

CarryNoDup(I, i) ==
    \A j, k \in 1..Len(I[i].Carry) :
        j # k => I[I[i].Carry[j]].Name # I[I[i].Carry[k]].Name

\* C30: in every reachable state where no Carry list holds two entries of one
\* name, for all interfaces a and b attached to different devices and every
\* network, CarryIntrfcFrames(a, b) followed by a carry-mode ConnectDevs of
\* their devices leaves no Carry list with two entries of one name
C30_CarryNoDuplicates ==
    \A a, b \in Attached, n \in NetFrames :
        LET w1 == [World EXCEPT !.intrfcs = CarryIntrfcFrames(@, a, b)]
            r  == ConnectDevs(w1, DOMAIN netByName, intrfcs[a].Device,
                              intrfcs[b].Device, FALSE, n)
        IN (/\ intrfcs[a].Device # intrfcs[b].Device
            /\ \A i \in Intrfcs : CarryNoDup(intrfcs, i))
           => \A i \in 1..Len(r.w.intrfcs) : CarryNoDup(r.w.intrfcs, i)

\* C31: in every state reached by ConnectDevs calls (dev1 = dev2 included) no
\* interface is its own Cable, none is in its own Carry list, and none is
\* cabled to an interface of the same device
C31_NoSelfLinks ==
    \A i \in Intrfcs :
        /\ intrfcs[i].Cable # i
        /\ i \notin Range(intrfcs[i].Carry)
        /\ intrfcs[i].Cable # 0
              => intrfcs[intrfcs[i].Cable].Device # intrfcs[i].Device

====
